---- MODULE Spec2Model ----
(***************************************************************************)
(* Model of the per-message response run (GeminiResponseHandler) and of    *)
(* the agent controller (OpenAIAgent) that creates and tracks the runs.    *)
(*                                                                         *)
(* A step of the model is one stretch of JavaScript that executes without  *)
(* yielding to the event loop: from the resumption of an awaited network   *)
(* operation (stream pull, transport call, provider fetch) or the delivery *)
(* of an inbound event, up to the next such await.  Calls that the code    *)
(* does not await (partialUpdateMessage in the loop, the final flush, the  *)
(* final ai_indicator.clear) are recorded when issued and cannot fault     *)
(* into the run.                                                           *)
(***************************************************************************)
EXTENDS Integers, Sequences, FiniteSets, TLC

\* ------------------------------------------------------------------ bounds
MaxRuns == 2        \* runs the controller may create
MaxChunks == 2      \* chunks delivered by all generation streams together
MaxStops == 2       \* inbound ai_indicator.stop events
MaxTicks == 2       \* advances of the wall clock

\* --------------------------------------------------------------- constants
ThrottleMs == 1000
TickMs == ThrottleMs
StartTime == ThrottleMs + TickMs

Runs == 1 .. MaxRuns
NoChunk == [text |-> <<>>, functionCalls |-> <<>>]
NoError == [has_message |-> FALSE, message |-> <<>>]

\* ----------------------------------------------------------------- inputs
\* Text fragments are sequences of characters.
TextAb == <<"a", "b">>
TextPartial == <<"p", "a", "r", "t", "i", "a", "l", " ", "t", "e", "x", "t">>

\* JavaScript values: a primitive carries its string or its number, an
\* object its own enumerable fields in insertion order.
JsString(x) == [t |-> "string", s |-> x, n |-> 0, fields |-> <<>>, cyclic |-> FALSE]
JsNumber(k) == [t |-> "number", s |-> "", n |-> k, fields |-> <<>>, cyclic |-> FALSE]
JsNull == [t |-> "null", s |-> "", n |-> 0, fields |-> <<>>, cyclic |-> FALSE]
JsUndefined == [t |-> "undefined", s |-> "", n |-> 0, fields |-> <<>>, cyclic |-> FALSE]
JsObject(fields, cyclic) ==
    [t |-> "object", s |-> "", n |-> 0, fields |-> fields, cyclic |-> cyclic]

\* Argument payloads of a function call.
ArgsQuery == JsObject(<<[key |-> "query", value |-> JsString("cats")]>>, FALSE)
ArgsNoQuery == JsObject(<<[key |-> "q", value |-> JsString("cats")]>>, FALSE)
ArgsCyclic == JsObject(<<>>, TRUE)
ArgsMissing == JsUndefined
ArgsNumberQuery == JsObject(<<[key |-> "query", value |-> JsNumber(7)]>>, FALSE)
ArgsNullQuery == JsObject(<<[key |-> "query", value |-> JsNull]>>, FALSE)
ArgsEmpty == JsObject(<<>>, FALSE)
ArgsString == JsString("cats")
ArgsZero == JsNumber(0)

CallSearch == [name |-> "web_search", args |-> ArgsQuery]
CallSearchNoQuery == [name |-> "web_search", args |-> ArgsNoQuery]
CallSearchCyclic == [name |-> "web_search", args |-> ArgsCyclic]
CallSearchNoArgs == [name |-> "web_search", args |-> ArgsMissing]
CallOther == [name |-> "other_tool", args |-> ArgsQuery]

ChunkSet ==
    { [text |-> TextPartial, functionCalls |-> <<>>],
      [text |-> TextAb, functionCalls |-> <<CallOther, CallSearch>>],
      [text |-> <<>>,
       functionCalls |-> <<CallSearchCyclic, CallSearchNoQuery, CallSearchNoArgs>>] }

\* Chunks whose calls carry the other shapes of argument payload.
ChunkNumberNull ==
    [text |-> TextAb,
     functionCalls |-> <<[name |-> "web_search", args |-> ArgsNumberQuery],
                         [name |-> "web_search", args |-> ArgsNullQuery]>>]

ChunkPrimitives ==
    [text |-> <<>>,
     functionCalls |-> <<[name |-> "web_search", args |-> ArgsString],
                         [name |-> "web_search", args |-> ArgsZero],
                         [name |-> "web_search", args |-> ArgsEmpty]>>]

PayloadChunkSet == ChunkSet \cup {ChunkNumberNull, ChunkPrimitives}

\* Faults: the thrown value's message (absent for a thrown non-Error value).
FaultSet ==
    { [has_message |-> TRUE, message |-> <<"b", "o", "o", "m">>],
      [has_message |-> FALSE, message |-> <<>>] }

ProviderOutcomes == {"data", "http_error", "exception", "no_key"}

InboundSet ==
    { [has_message |-> TRUE, ai_generated |-> FALSE, text |-> "hi"],
      [has_message |-> TRUE, ai_generated |-> FALSE, text |-> ""],
      [has_message |-> TRUE, ai_generated |-> TRUE, text |-> ""],
      [has_message |-> TRUE, ai_generated |-> TRUE, text |-> "hi"],
      [has_message |-> FALSE, ai_generated |-> FALSE, text |-> ""] }

SetupOutcomes == {"ok", "sendMessage", "sendEvent", "generateContentStream"}

\* ------------------------------------------------------------------ state
VARIABLES
    genai,              \* OpenAIAgent.genai is set
    listening,          \* handleMessage is subscribed to "message.new"
    lastInteractionTs,  \* OpenAIAgent.lastInteractionTs
    handlers,           \* OpenAIAgent.handlers
    created,            \* number of runs constructed so far
    inbound,            \* the "message.new" events delivered so far
    run,                \* run[r]: the fields of GeminiResponseHandler r
    clock,              \* Date.now()
    pulled,             \* chunks delivered so far (all streams)
    stops,              \* stop events delivered so far
    stop_id,            \* message id carried by the last stop event
    faults,             \* faults raised so far by the stream and the transport
    limits              \* what the environment supplies: "message.new" events,
                        \* chunks and their payloads, stop events, clock
                        \* advances, faults

vars == <<genai, listening, lastInteractionTs, handlers, created, inbound, run, clock,
          pulled, stops, stop_id, faults, limits>>

\* The message id of run r's placeholder message (assigned by the server,
\* distinct per message).
MessageId(r) == r

\* A handler that has not been constructed yet.
NewRun ==
    [ pc |-> "idle",
      message_text |-> <<>>,
      chunk_counter |-> 0,
      is_done |-> FALSE,
      last_update_time |-> 0,
      subscribed |-> FALSE,
      chunk |-> NoChunk,
      call_idx |-> 0,
      toolOutputs |-> <<>>,
      error |-> NoError,
      stop_pending |-> 0,
      stop_clears |-> 0,
      unsubscribes |-> 0,
      releases |-> 0,
      ended_by |-> "none",
      received |-> <<>>,
      log |-> <<>>,
      outcome |-> "none" ]

\* One outbound call made by run(), handleFunctionCalls or handleError,
\* recorded in the order the run issues it; the time of the call is kept for
\* the throttled updates, the only calls the code times.
Sent(s, op, arg, text, now) ==
    [s EXCEPT !.log = Append(@, [op |-> op, arg |-> arg, text |-> text,
                                 at |-> IF arg = "partial" THEN now ELSE 0])]

\* ------------------------------------------------------- GeminiResponseHandler
DisposeAlways(done) == FALSE

DisposeNever(done) == TRUE

\* dispose: the is_done guard.
DisposeIsNoop(done) == done

\* dispose(): idempotent teardown.
dispose(s, now) ==
    IF DisposeIsNoop(s.is_done)
    THEN s
    ELSE [s EXCEPT !.is_done = TRUE,
                   !.subscribed = FALSE,
                   !.unsubscribes = @ + 1,
                   !.releases = @ + 1]

ReplaceText(acc, t) == t

\* this.message_text += chunk.text
AppendText(acc, t) == acc \o t

ThrottleAlwaysOpen(now, last) == TRUE

\* now - this.last_update_time > 1000
ThrottleOpen(now, last) == now - last > ThrottleMs

\* The text part of one loop iteration.
ProcessText(s, now) ==
    IF s.chunk.text # <<>>
    THEN LET t == AppendText(s.message_text, s.chunk.text)
             flush == ThrottleOpen(now, s.last_update_time)
             s1 == [s EXCEPT !.message_text = t,
                             !.chunk_counter = @ + 1,
                             !.last_update_time = IF flush THEN now ELSE @]
         IN  IF flush THEN Sent(s1, "update", "partial", t, now) ELSE s1
    ELSE s

\* End of a loop iteration: back to awaiting the stream.
NextIteration(s, now) ==
    [ProcessText(s, now) EXCEPT !.pc = "pull", !.chunk = NoChunk, !.call_idx = 0]

\* The finally block of run(), and run()'s completion.
Finally(s, now, outcome) ==
    [dispose(s, now) EXCEPT !.pc = "done", !.outcome = outcome]

FinishThrottled(s, now) ==
    Finally(Sent(IF now - s.last_update_time > ThrottleMs
                 THEN Sent(s, "update", "final", s.message_text, now)
                 ELSE s,
                 "clear", "run", <<>>, now),
            now, "returned")

FinishWithoutFlush(s, now) ==
    Finally(Sent(s, "clear", "run", <<>>, now), now, "returned")

\* The statements after the loop: final flush, ai_indicator.clear, finally.
Finish(s, now) ==
    Finally(Sent(Sent(s, "update", "final", s.message_text, now),
                 "clear", "run", <<>>, now),
            now, "returned")

ErrorNeverSkipped(done) == FALSE

ErrorAlwaysSkipped(done) == TRUE

\* handleError: the is_done guard.
HandleErrorSkips(done) == done

DefaultErrorMessage ==
    <<"E", "r", "r", "o", "r", " ", "g", "e", "n", "e", "r", "a", "t", "i", "n", "g",
      " ", "t", "h", "e", " ", "m", "e", "s", "s", "a", "g", "e">>

\* `Error: ${error.message ?? "Error generating the message"}`
ErrorText(err) ==
    <<"E", "r", "r", "o", "r", ":", " ">>
        \o (IF err.has_message THEN err.message ELSE DefaultErrorMessage)

\* The catch block of run(): handleError up to its first await.
handleError(s, err, now) ==
    IF HandleErrorSkips(s.is_done)
    THEN Finally(s, now, "returned")
    ELSE [Sent(s, "status", "AI_STATE_ERROR", <<>>, now)
            EXCEPT !.pc = "err_status", !.error = err]

ChunkAlwaysHasCalls(chunk) == TRUE

\* chunk.functionCalls && chunk.functionCalls.length > 0
HasFunctionCalls(chunk) == Len(chunk.functionCalls) > 0

\* Truthiness of a value (the test `call.args`).
Truthy(v) ==
    CASE v.t = "object" -> TRUE
      [] v.t = "string" -> v.s # ""
      [] v.t = "number" -> v.n # 0
      [] OTHER -> FALSE

\* call.name === "web_search" && call.args
IsDispatched(call) == call.name = "web_search" /\ Truthy(call.args)

\* String(v) of a primitive.
String(v) ==
    CASE v.t = "string" -> v.s
      [] v.t = "number" -> ToString(v.n)
      [] v.t = "null" -> "null"
      [] OTHER -> "undefined"

\* args[key]: the field's value, undefined when the object has no such field.
GetField(args, key) ==
    LET hits == SelectSeq(args.fields, LAMBDA f : f.key = key)
    IN  IF hits = <<>> THEN JsUndefined ELSE Head(hits).value

Quote(x) == "\"" \o x \o "\""

\* JSON text of a field's value.
JsonValue(v) ==
    CASE v.t = "string" -> Quote(v.s)
      [] v.t = "number" -> ToString(v.n)
      [] OTHER -> "null"

RECURSIVE JsonFields(_)
JsonFields(fields) ==
    IF fields = <<>>
    THEN ""
    ELSE Quote(Head(fields).key) \o ":" \o JsonValue(Head(fields).value)
            \o (IF Tail(fields) = <<>> THEN "" ELSE "," \o JsonFields(Tail(fields)))

\* JSON.stringify(call.args) of an object it can serialize.
JsonStringify(args) == "{" \o JsonFields(args.fields) \o "}"

ExtractAlwaysSerializes(args) == [ok |-> TRUE, query |-> JsonStringify(args)]

\* The query handed to performWebSearch, or a fault of the extraction
\* (JSON.stringify of a payload it cannot serialize).
ExtractQuery(args) ==
    IF args.t = "object"
    THEN LET maybeQuery == GetField(args, "query") IN
         IF maybeQuery.t = "string"
         THEN [ok |-> TRUE, query |-> maybeQuery.s]
         ELSE IF maybeQuery.t \notin {"null", "undefined"}
              THEN [ok |-> TRUE, query |-> String(maybeQuery)]
              ELSE IF args.cyclic
                   THEN [ok |-> FALSE, query |-> ""]
                   ELSE [ok |-> TRUE, query |-> JsonStringify(args)]
    ELSE [ok |-> TRUE, query |-> String(args)]

ToolError == [error |-> "failed to call tool"]

\* The loop over the chunk's calls from index i, up to the next await
\* (performWebSearch) or, when no call is left, to the end of the iteration.
RECURSIVE DispatchFrom(_, _, _)
DispatchFrom(s, i, now) ==
    IF i > Len(s.chunk.functionCalls)
    THEN NextIteration(s, now)
    ELSE LET call == s.chunk.functionCalls[i] IN
         IF IsDispatched(call)
         THEN LET q == ExtractQuery(call.args) IN
              IF q.ok
              THEN [Sent(s, "search", q.query, <<>>, now)
                      EXCEPT !.pc = "fc_search", !.call_idx = i]
              ELSE DispatchFrom(
                       [s EXCEPT !.toolOutputs =
                            Append(@, [functionCall |-> i, response |-> ToolError,
                                       provider |-> "not invoked"])],
                       i + 1, now)
         ELSE DispatchFrom(s, i + 1, now)

DispatchUnawaited(s, now) ==
    [Sent([ProcessText(s, now) EXCEPT !.chunk.text = <<>>],
          "status", "AI_STATE_EXTERNAL_SOURCES", <<>>, now)
        EXCEPT !.pc = "fc_status"]

\* run() enters handleFunctionCalls, which runs up to its await of the
\* EXTERNAL_SOURCES sendEvent.
BeginDispatch(s, now) ==
    [Sent(s, "status", "AI_STATE_EXTERNAL_SOURCES", <<>>, now) EXCEPT !.pc = "fc_status"]

SearchAlwaysData(outcome) == [error |-> "none"]

\* JSON.parse of what performWebSearch returns for each outcome of the provider.
SearchResponse(outcome) ==
    CASE outcome = "data" -> [error |-> "none"]
      [] outcome = "http_error" -> [error |-> "Search failed with status"]
      [] outcome = "exception" -> [error |-> "An exception occurred during the search."]
      [] OTHER -> [error |-> "Web search is not available. API key not configured."]

StopMatchesAny(id, mine) == TRUE

\* event.message_id === this.message.id
StopMatches(id, mine) == id = mine

\* handleStopGenerating up to its await of sendEvent.
handleStopGenerating(s, id, mine, now) ==
    IF s.is_done \/ ~StopMatches(id, mine)
    THEN s
    ELSE [s EXCEPT !.stop_clears = @ + 1, !.stop_pending = @ + 1]

\* ------------------------------------------------------------- OpenAIAgent
RemoveOldest(hs, r) == IF hs = <<>> THEN hs ELSE Tail(hs)

\* removeHandler: this.handlers.filter(handler => handler !== handlerToRemove)
removeHandler(hs, r) == SelectSeq(hs, LAMBDA h : h # r)

\* A step of handler r that takes its fields from s to s2; the release
\* callback, when the step invoked it, has removed r from the handlers.
RunStep(r, s2) ==
    /\ run' = [run EXCEPT ![r] = s2]
    /\ handlers' = IF s2.releases > run[r].releases
                   THEN removeHandler(handlers, r)
                   ELSE handlers
    /\ UNCHANGED <<genai, listening, lastInteractionTs, created, inbound, clock, stops,
                   stop_id, limits>>

\* The chunks the generation streams may deliver.
Alphabet == IF limits.payloads = "all" THEN PayloadChunkSet ELSE ChunkSet

\* Whether the environment may raise a fault now: always, or while fewer
\* than limits.faults were raised.
MayFault == limits.any_fault \/ faults < limits.faults

\* The outcomes of an awaited call: it resolves, or it rejects.
Settles == IF MayFault THEN BOOLEAN ELSE {TRUE}

\* Faults are counted where they are limited.
Faulted(ok) == faults' = IF ok \/ limits.any_fault THEN faults ELSE faults + 1

\* ---------------------------------------------------------------- actions
Start ==
    /\ genai = FALSE
    /\ listening = FALSE
    /\ lastInteractionTs = StartTime
    /\ handlers = <<>>
    /\ created = 0
    /\ inbound = <<>>
    /\ run = [r \in Runs |-> NewRun]
    /\ clock = StartTime
    /\ pulled = 0
    /\ stops = 0
    /\ stop_id = 0
    /\ faults = 0

\* One user message: the whole life of one run, any of its awaited calls
\* faulting.
Init ==
    /\ Start
    /\ limits = [runs |-> 1, chunks |-> MaxChunks, stops |-> MaxStops, ticks |-> MaxTicks,
                 any_fault |-> TRUE, faults |-> 0, payloads |-> "usual"]

\* One user message, one stop event, one advance of the clock: the paths of
\* one run to its completion.
LiveInit ==
    /\ Start
    /\ limits = [runs |-> 1, chunks |-> MaxChunks, stops |-> 1, ticks |-> 1,
                 any_fault |-> TRUE, faults |-> 0, payloads |-> "usual"]

\* Several user messages: concurrent runs over short streams.
MultiInit ==
    /\ Start
    /\ limits = [runs |-> MaxRuns, chunks |-> 1, stops |-> 1, ticks |-> 1,
                 any_fault |-> FALSE, faults |-> 1, payloads |-> "usual"]

\* One user message whose stream delivers calls with every shape of
\* argument payload.
DispatchInit ==
    /\ Start
    /\ limits = [runs |-> 1, chunks |-> MaxChunks, stops |-> 1, ticks |-> 1,
                 any_fault |-> FALSE, faults |-> 1, payloads |-> "all"]

\* OpenAIAgent.init
AgentInit ==
    /\ ~listening
    /\ \E apiKey \in BOOLEAN :
          /\ genai' = (genai \/ apiKey)
          /\ listening' = (listening \/ apiKey)
    /\ UNCHANGED <<lastInteractionTs, handlers, created, inbound, run, clock, pulled, stops,
                   stop_id, faults, limits>>

IgnoresOnlyEmpty(e) == ~genai \/ ~e.has_message \/ e.text = ""

\* handleMessage: the early returns.
Ignores(e) == ~genai \/ ~e.has_message \/ e.ai_generated \/ e.text = ""

\* A "message.new" event e reaches the client; OpenAIAgent.handleMessage runs
\* for it when subscribed.  setup is the awaited call of the set-up that
\* faults, if any.
HandleMessage ==
    /\ Len(inbound) < limits.runs
    /\ created < MaxRuns
    /\ \E e \in InboundSet, setup \in SetupOutcomes :
          /\ inbound' = Append(inbound, e)
          /\ IF ~listening \/ Ignores(e)
             THEN UNCHANGED <<genai, listening, lastInteractionTs, handlers, created, run,
                              clock, pulled, stops, stop_id, faults, limits>>
             ELSE /\ lastInteractionTs' = clock
                  /\ IF setup = "ok"
                     THEN LET r == created + 1
                              s0 == Sent(Sent(NewRun, "placeholder", "sendMessage", <<>>,
                                              clock),
                                         "status", "AI_STATE_THINKING", <<>>, clock)
                          IN  /\ created' = r
                              /\ handlers' = Append(handlers, r)
                              /\ run' = [run EXCEPT ![r] =
                                            [s0 EXCEPT !.pc = "pull", !.subscribed = TRUE]]
                     ELSE UNCHANGED <<created, handlers, run>>
                  /\ UNCHANGED <<genai, listening, clock, pulled, stops, stop_id, faults,
                                 limits>>

\* The for-await loop receives the stream's next element.
Pull(r) ==
    /\ run[r].pc = "pull"
    /\ pulled < limits.chunks
    /\ \E c \in Alphabet :
          LET s0 == [run[r] EXCEPT !.received = Append(@, c), !.chunk = c,
                                   !.toolOutputs = <<>>]
          IN  RunStep(r, IF HasFunctionCalls(c)
                         THEN BeginDispatch(s0, clock)
                         ELSE NextIteration(s0, clock))
    /\ pulled' = pulled + 1
    /\ UNCHANGED faults

\* The stream is exhausted.
StreamEnd(r) ==
    /\ run[r].pc = "pull"
    /\ RunStep(r, Finish([run[r] EXCEPT !.ended_by = "exhausted"], clock))
    /\ UNCHANGED <<pulled, faults>>

\* The stream raises a fault.
StreamFault(r) ==
    /\ run[r].pc = "pull"
    /\ MayFault
    /\ Faulted(FALSE)
    /\ \E f \in FaultSet :
          RunStep(r, handleError([run[r] EXCEPT !.ended_by = "stream_fault"], f, clock))
    /\ UNCHANGED <<pulled>>

\* handleFunctionCalls: the awaited EXTERNAL_SOURCES sendEvent settles.
FcStatusDone(r) ==
    /\ run[r].pc = "fc_status"
    /\ \E ok \in Settles, f \in FaultSet :
          /\ RunStep(r, IF ok
                        THEN DispatchFrom(run[r], 1, clock)
                        ELSE handleError([run[r] EXCEPT !.ended_by = "transport_fault"],
                                         f, clock))
          /\ Faulted(ok)
    /\ UNCHANGED <<pulled>>

\* handleFunctionCalls: the awaited performWebSearch settles.
SearchDone(r) ==
    /\ run[r].pc = "fc_search"
    /\ \E o \in ProviderOutcomes :
          RunStep(r, DispatchFrom(
                         [run[r] EXCEPT !.toolOutputs =
                              Append(@, [functionCall |-> run[r].call_idx,
                                         response |-> SearchResponse(o),
                                         provider |-> o])],
                         run[r].call_idx + 1, clock))
    /\ UNCHANGED <<pulled, faults>>

\* handleError: the awaited ERROR sendEvent settles.
ErrStatusDone(r) ==
    /\ run[r].pc = "err_status"
    /\ \E ok \in Settles :
          /\ RunStep(r, IF ok
                        THEN [Sent(run[r], "update", "error", ErrorText(run[r].error), clock)
                                EXCEPT !.pc = "err_update"]
                        ELSE Finally(run[r], clock, "threw"))
          /\ Faulted(ok)
    /\ UNCHANGED <<pulled>>

\* handleError: the awaited partialUpdateMessage settles.
ErrUpdateDone(r) ==
    /\ run[r].pc = "err_update"
    /\ \E ok \in Settles :
          /\ RunStep(r, IF ok
                        THEN Finally(dispose(run[r], clock), clock, "returned")
                        ELSE Finally(run[r], clock, "threw"))
          /\ Faulted(ok)
    /\ UNCHANGED <<pulled>>

\* An "ai_indicator.stop" event for message id x (the id of a run's message,
\* or 0 for a message no run owns) is dispatched to every subscribed handler.
Stop(x) ==
    /\ stops < limits.stops
    /\ stops' = stops + 1
    /\ stop_id' = x
    /\ run' = [r \in Runs |->
                  IF run[r].subscribed
                  THEN handleStopGenerating(run[r], x, MessageId(r), clock)
                  ELSE run[r]]
    /\ UNCHANGED <<genai, listening, lastInteractionTs, handlers, created, inbound, clock,
                   pulled, faults, limits>>

\* handleStopGenerating: the awaited ai_indicator.clear sendEvent settles.
StopResume(r) ==
    /\ run[r].stop_pending > 0
    /\ \E ok \in Settles :
          LET s == [run[r] EXCEPT !.stop_pending = @ - 1]
          IN  /\ RunStep(r, IF ok THEN dispose(s, clock) ELSE s)
              /\ Faulted(ok)
    /\ UNCHANGED <<pulled>>

\* The wall clock advances.  Only differences of clock readings matter to
\* the runs, so the clock reads StartTime when the first run is created.
Tick ==
    /\ created > 0
    /\ clock < StartTime + limits.ticks * TickMs
    /\ clock' = clock + TickMs
    /\ UNCHANGED <<genai, listening, lastInteractionTs, handlers, created, inbound, run,
                   pulled, stops, stop_id, faults, limits>>

HandlerStep(r) ==
    \/ Pull(r)
    \/ StreamEnd(r)
    \/ StreamFault(r)
    \/ FcStatusDone(r)
    \/ SearchDone(r)
    \/ ErrStatusDone(r)
    \/ ErrUpdateDone(r)

Next ==
    \/ AgentInit
    \/ HandleMessage
    \/ \E r \in Runs : HandlerStep(r)
    \/ \E x \in 0 .. limits.runs : Stop(x)
    \/ \E r \in Runs : StopResume(r)
    \/ Tick

Spec == Init /\ [][Next]_vars

MultiSpec == MultiInit /\ [][Next]_vars

DispatchSpec == DispatchInit /\ [][Next]_vars

\* Every awaited operation eventually settles, and a finite stream ends.
LiveSpec ==
    /\ LiveInit
    /\ [][Next]_vars
    /\ \A r \in Runs : WF_vars(HandlerStep(r)) /\ WF_vars(StopResume(r))

\* ------------------------------------------------------------ observations
\* The text updates a run has sent, in order.
Updates(r) == SelectSeq(run[r].log, LAMBDA e : e.op = "update")

\* The throttled (in-loop) updates a run has sent, in order.
PartialUpdates(r) == SelectSeq(run[r].log, LAMBDA e : e.arg = "partial")

\* The updates that carry accumulated text: throttled ones and the final flush.
TextUpdates(r) == SelectSeq(run[r].log, LAMBDA e : e.op = "update" /\ e.arg # "error")

CountSent(r, op, arg) ==
    Cardinality({i \in 1 .. Len(run[r].log) :
                    run[r].log[i].op = op /\ run[r].log[i].arg = arg})

RECURSIVE ConcatText(_)
ConcatText(chunks) ==
    IF chunks = <<>> THEN <<>> ELSE Head(chunks).text \o ConcatText(Tail(chunks))

IsPrefix(a, b) == Len(a) <= Len(b) /\ SubSeq(b, 1, Len(a)) = a

TextChunks(r) == SelectSeq(run[r].received, LAMBDA c : c.text # <<>>)

CallChunks(r) == SelectSeq(run[r].received, LAMBDA c : Len(c.functionCalls) >= 1)

\* A stop handler has disposed run r while run() is still executing.
StopHandled(r) == run[r].is_done /\ run[r].pc # "done"

\* -------------------------------------------------------------------- C1
\* C1: in every interleaving of completion, fault and stop events the
\* disposal side effects of a run (unsubscribing from the stop signal, the
\* release callback) have happened at most once, exactly once as soon as the
\* run is disposed or run() has completed, and the stop subscription is held
\* exactly from construction to that single disposal.
DisposeExactlyOnce ==
    \A r \in Runs :
        /\ run[r].unsubscribes <= 1
        /\ run[r].releases <= 1
        /\ run[r].is_done <=> (run[r].unsubscribes = 1 /\ run[r].releases = 1)
        /\ run[r].pc = "done" => run[r].is_done
        /\ run[r].subscribed <=> (run[r].pc # "idle" /\ run[r].unsubscribes = 0)

\* Two stop events raced with a stream fault whose error handling completed:
\* dispose() was called by handleError, by the finally block and by the stop
\* handlers that resumed.
DisposeRaceWitness ==
    \E r \in Runs :
        /\ run[r].pc = "done"
        /\ run[r].outcome = "returned"
        /\ run[r].stop_clears = 2
        /\ run[r].stop_pending = 0
        /\ CountSent(r, "update", "error") = 1
        /\ run[r].releases = 1

\* -------------------------------------------------------------------- C2
\* C2: once a matching stop signal has been handled (status cleared, run
\* disposed) the run pulls no further chunk and accumulated text is not
\* extended.
StopAbandonsStream ==
    [][\A r \in Runs :
          StopHandled(r) =>
              /\ run'[r].received = run[r].received
              /\ run'[r].message_text = run[r].message_text]_vars

\* -------------------------------------------------------------------- C3
\* C3: when the stream ends by exhaustion, the last text update sent is the
\* final flush and carries the concatenation, in stream order, of the text
\* of every chunk received.
FinalUpdateIsConcatenation ==
    \A r \in Runs :
        run[r].ended_by = "exhausted" =>
            /\ Len(Updates(r)) >= 1
            /\ Updates(r)[Len(Updates(r))].arg = "final"
            /\ Updates(r)[Len(Updates(r))].text = ConcatText(run[r].received)

\* An exhausted stream with two text chunks of which the throttle suppressed
\* one in-loop update.
SuppressedThenFinalWitness ==
    \E r \in Runs :
        /\ run[r].ended_by = "exhausted"
        /\ Len(TextChunks(r)) = 2
        /\ Len(PartialUpdates(r)) = 1
        /\ Updates(r)[Len(Updates(r))].text # PartialUpdates(r)[1].text

\* -------------------------------------------------------------------- C4
\* C4 as stated: every text update sent is at least as long as the update
\* sent before it.
UpdatesNeverShrink ==
    \A r \in Runs :
        \A i \in 1 .. Len(Updates(r)) - 1 :
            Len(Updates(r)[i].text) <= Len(Updates(r)[i + 1].text)

\* C4 amended: every update that carries accumulated text (a throttled
\* update or the final flush) extends every earlier update as a prefix, and
\* the error string of handleError, which replaces the text and may be
\* shorter, is the last update of its run.
TextUpdatesGrow ==
    \A r \in Runs :
        /\ \A i, j \in 1 .. Len(TextUpdates(r)) :
              i < j => IsPrefix(TextUpdates(r)[i].text, TextUpdates(r)[j].text)
        /\ \A i \in 1 .. Len(Updates(r)) :
              Updates(r)[i].arg = "error" => i = Len(Updates(r))

\* Two throttled updates, the second strictly longer, then the error string.
GrowThenErrorWitness ==
    \E r \in Runs :
        /\ Len(Updates(r)) = 3
        /\ Updates(r)[3].arg = "error"
        /\ Len(Updates(r)[1].text) < Len(Updates(r)[2].text)

\* -------------------------------------------------------------------- C5
\* C5: any two throttled (in-loop) updates of a run are sent at least
\* ThrottleMs of wall-clock time apart.
ThrottleBound ==
    \A r \in Runs :
        \A i, j \in 1 .. Len(PartialUpdates(r)) :
            i < j => PartialUpdates(r)[j].at - PartialUpdates(r)[i].at >= ThrottleMs

\* Two throttled updates were sent by one run.
TwoThrottledWitness ==
    \E r \in Runs :
        /\ Len(PartialUpdates(r)) = 2
        /\ PartialUpdates(r)[2].at > PartialUpdates(r)[1].at

\* -------------------------------------------------------------------- C6
\* C6: the delivery of a stop event whose message id is not the id of run r
\* leaves every field of r unchanged: no status signal, no disposal, same
\* position in its stream, same text.
StopIsolation ==
    [][\A r \in Runs :
          (stops' = stops + 1 /\ stop_id' # MessageId(r)) => run'[r] = run[r]]_vars

\* A stop for the first run was delivered while the second run was live; the
\* first run cleared its status, the second did not.
StopOtherRunWitness ==
    /\ stops = 1
    /\ stop_id = MessageId(1)
    /\ run[1].stop_clears = 1
    /\ run[2].pc \in {"pull", "fc_status", "fc_search"}
    /\ run[2].subscribed
    /\ run[2].stop_clears = 0

\* -------------------------------------------------------------------- C7
\* C7: run() never completes by propagating a fault to its caller.
RunNeverThrows == \A r \in Runs : run[r].outcome # "threw"

\* -------------------------------------------------------------------- C8
\* C8: every run that was started is eventually disposed and its run()
\* eventually completes, whatever ends the stream and whether or not stop
\* events arrive.
EventuallyDisposed ==
    \A r \in Runs :
        (run[r].pc # "idle") ~> (run[r].pc = "done" /\ run[r].is_done)

\* A run that pulled chunks, dispatched a search, was stopped and completed.
StoppedAndCompletedWitness ==
    \E r \in Runs :
        /\ run[r].pc = "done"
        /\ run[r].is_done
        /\ run[r].stop_clears >= 1
        /\ CountSent(r, "search", "cats") >= 1
        /\ run[r].ended_by = "exhausted"

ExhaustionStatuses ==
    \A r \in Runs :
        (run[r].ended_by = "exhausted" /\ run[r].stop_clears = 0) =>
            /\ CountSent(r, "clear", "run") = 1
            /\ CountSent(r, "status", "AI_STATE_ERROR") = 0
            /\ CountSent(r, "status", "AI_STATE_EXTERNAL_SOURCES") = Len(CallChunks(r))

\* A text chunk and a single tool-call chunk, then exhaustion.
OneCallChunkWitness ==
    \E r \in Runs :
        /\ run[r].ended_by = "exhausted"
        /\ run[r].stop_clears = 0
        /\ Len(run[r].received) = 2
        /\ Len(CallChunks(r)) = 1
        /\ CountSent(r, "status", "AI_STATE_EXTERNAL_SOURCES") = 1
        /\ CountSent(r, "search", "cats") = 1

\* ------------------------------------------------------------ tool dispatch
\* The last chunk run r pulled.
LastChunk(r) == run[r].received[Len(run[r].received)]

\* handleFunctionCalls has returned for the last chunk run r pulled (or the
\* chunk carried no call).
DispatchReturned(r) ==
    /\ Len(run[r].received) > 0
    /\ run[r].pc \notin {"fc_status", "fc_search"}
    /\ run[r].ended_by # "transport_fault"

\* The positions of the calls of a chunk that handleFunctionCalls acts on.
WebSearchCalls(chunk) ==
    {i \in 1 .. Len(chunk.functionCalls) :
        /\ chunk.functionCalls[i].name = "web_search"
        /\ chunk.functionCalls[i].args \notin {ArgsMissing, ArgsZero}}

AnsweredCalls(r) ==
    {run[r].toolOutputs[i].functionCall : i \in 1 .. Len(run[r].toolOutputs)}

\* C11 as stated: a web_search call whose provider invocation raised a fault
\* has the result {error: "failed to call tool"}.
ProviderFaultIsToolError ==
    \A r \in Runs : \A i \in 1 .. Len(run[r].toolOutputs) :
        run[r].toolOutputs[i].provider = "exception"
            => run[r].toolOutputs[i].response = [error |-> "failed to call tool"]

\* C11, amended: a fault raised inside the provider invocation is contained
\* by the provider, and the call's result is the provider's own structured
\* error; {error: "failed to call tool"} is the result of a call whose query
\* could not be built.  In both cases the remaining calls of the chunk are
\* dispatched and the run goes on to pull the stream, never entering the
\* error path from the provider's settling.
ProviderFaultContained ==
    /\ [](\A r \in Runs :
            /\ \A i \in 1 .. Len(run[r].toolOutputs) :
                  LET out == run[r].toolOutputs[i] IN
                  /\ out.provider = "exception"
                        => out.response =
                              [error |-> "An exception occurred during the search."]
                  /\ out.provider = "not invoked"
                        => out.response = [error |-> "failed to call tool"]
            /\ DispatchReturned(r) => AnsweredCalls(r) = WebSearchCalls(LastChunk(r)))
    /\ [][\A r \in Runs :
            run[r].pc = "fc_search" /\ run'[r] # run[r] /\ run'[r].pc # "fc_search"
                => /\ run'[r].pc = "pull"
                   /\ run'[r].ended_by = "none"
                   /\ CountSent(r, "status", "AI_STATE_ERROR")' = 0]_vars

\* A chunk's dispatch returned with one call answered by the provider's
\* contained fault and one by the dispatcher's own error, and the run awaits
\* the stream again.
ContainedFaultsWitness ==
    \E r \in Runs :
        /\ run[r].pc = "pull"
        /\ run[r].ended_by = "none"
        /\ \E i, j \in 1 .. Len(run[r].toolOutputs) :
              /\ run[r].toolOutputs[i].provider = "not invoked"
              /\ run[r].toolOutputs[j].provider = "exception"
              /\ i < j

\* C12 as stated: when the dispatch of a chunk returns, the chunk's n tool
\* calls have n {call, result} pairs, one per call, whatever the calls' names
\* and argument payloads.
EveryCallAnswered ==
    \A r \in Runs :
        DispatchReturned(r)
            => /\ Len(run[r].toolOutputs) = Len(LastChunk(r).functionCalls)
               /\ AnsweredCalls(r) = 1 .. Len(LastChunk(r).functionCalls)

\* The queries run r has invoked the provider with, in order.
Searches(r) ==
    LET entries == SelectSeq(run[r].log, LAMBDA e : e.op = "search")
    IN  [i \in 1 .. Len(entries) |-> entries[i].arg]

\* C13 as stated: an object with a query field invokes the provider with the
\* query coerced to a string, a non-empty object without one with the
\* serialization of the payload, a bare primitive with the primitive coerced
\* to a string.
ClaimedQuery(args) ==
    CASE args = ArgsQuery -> "cats"
      [] args = ArgsNumberQuery -> "7"
      [] args = ArgsNullQuery -> "null"
      [] args = ArgsNoQuery -> "{\"q\":\"cats\"}"
      [] args = ArgsString -> "cats"
      [] args = ArgsZero -> "0"
      [] OTHER -> ""

QueryAsClaimed ==
    \A r \in Runs :
        DispatchReturned(r)
            => \A k \in 1 .. Len(run[r].received) :
                  \A i \in 1 .. Len(run[r].received[k].functionCalls) :
                      LET call == run[r].received[k].functionCalls[i] IN
                      call.name = "web_search" /\ ClaimedQuery(call.args) # ""
                          => \E j \in 1 .. Len(Searches(r)) :
                                Searches(r)[j] = ClaimedQuery(call.args)

\* The query each payload of the model is searched with; none for a payload
\* that invokes no provider.
SearchedQuery(args) ==
    CASE args = ArgsQuery -> <<"cats">>
      [] args = ArgsNumberQuery -> <<"7">>
      [] args = ArgsNullQuery -> <<"{\"query\":null}">>
      [] args = ArgsNoQuery -> <<"{\"q\":\"cats\"}">>
      [] args = ArgsEmpty -> <<"{}">>
      [] args = ArgsString -> <<"cats">>
      [] OTHER -> <<>>

RECURSIVE ExpectedSearches(_)
ExpectedSearches(calls) ==
    IF calls = <<>>
    THEN <<>>
    ELSE (IF Head(calls).name = "web_search" THEN SearchedQuery(Head(calls).args) ELSE <<>>)
            \o ExpectedSearches(Tail(calls))

RECURSIVE ExpectedOfChunks(_)
ExpectedOfChunks(chunks) ==
    IF chunks = <<>>
    THEN <<>>
    ELSE ExpectedSearches(Head(chunks).functionCalls) \o ExpectedOfChunks(Tail(chunks))

\* C13, amended: for a web_search call, an object whose query field is a
\* string invokes the provider with that string; one whose query field is
\* neither a string nor null or undefined, with the query coerced to a
\* string; an object with no query field, or with a null one (the empty
\* object included), with the JSON serialization of the whole payload; a
\* truthy bare primitive with the primitive coerced to a string.  A falsy
\* payload (undefined, 0) invokes no provider at all.
QueryExtraction ==
    \A r \in Runs :
        DispatchReturned(r) => Searches(r) = ExpectedOfChunks(run[r].received)

\* Both chunks of unusual payloads were dispatched: a numeric query, a null
\* query, a bare string, a bare zero and an empty object.
AllPayloadsWitness ==
    \E r \in Runs :
        /\ DispatchReturned(r)
        /\ run[r].received = <<ChunkNumberNull, ChunkPrimitives>>
        /\ Searches(r) = <<"7", "{\"query\":null}", "cats", "{}">>

\* All but the last element of a sequence.
Front(seq) == SubSeq(seq, 1, Len(seq) - 1)

\* C14: chunks are processed in stream order and the dispatch blocks the
\* loop.  While a chunk's dispatch is in progress the chunk's text is not yet
\* appended; the EXTERNAL_SOURCES signal is the last thing sent while its
\* sendEvent is awaited and precedes every provider invocation of the chunk;
\* a chunk is pulled only when the text of every earlier chunk is appended.
DispatchBlocks ==
    /\ [](\A r \in Runs :
            /\ run[r].pc \in {"fc_status", "fc_search"}
                  => /\ run[r].chunk = LastChunk(r)
                     /\ run[r].message_text = ConcatText(Front(run[r].received))
            /\ run[r].pc = "fc_status"
                  => run[r].log[Len(run[r].log)].arg = "AI_STATE_EXTERNAL_SOURCES"
            /\ \A i \in 1 .. Len(run[r].log) :
                  run[r].log[i].op = "search"
                      => \E j \in 1 .. i - 1 :
                            /\ run[r].log[j].arg = "AI_STATE_EXTERNAL_SOURCES"
                            /\ \A k \in j + 1 .. i - 1 : run[r].log[k].op = "search"
            /\ run[r].pc = "pull" => run[r].message_text = ConcatText(run[r].received))
    /\ [][\A r \in Runs :
            run'[r].received # run[r].received
                => /\ run[r].pc = "pull"
                   /\ run[r].message_text = ConcatText(run[r].received)
                   /\ Front(run'[r].received) = run[r].received]_vars

\* The second provider invocation of a chunk that also carries text is
\* outstanding, after an earlier chunk of text.
SecondSearchPendingWitness ==
    \E r \in Runs :
        /\ run[r].pc = "fc_search"
        /\ run[r].call_idx = 2
        /\ Len(run[r].toolOutputs) = 1
        /\ Len(run[r].received) = 2
        /\ run[r].chunk.text = TextAb
        /\ run[r].message_text = TextPartial

\* ------------------------------------------------------------- the throttle
\* C15 as stated: a text chunk processed at time t causes a flush exactly
\* when t - last_update_time >= 1000, a difference of exactly 1000 ms
\* included; a deferred flush leaves last_update_time unchanged.
ThrottleGateInclusive ==
    [][\A r \in Runs :
          run'[r].chunk_counter = run[r].chunk_counter + 1
              => LET flushed == Len(PartialUpdates(r))' = Len(PartialUpdates(r)) + 1
                 IN  /\ flushed <=> clock - run[r].last_update_time >= ThrottleMs
                     /\ flushed => run'[r].last_update_time = clock
                     /\ ~flushed => run'[r].last_update_time = run[r].last_update_time]_vars

\* --------------------------------------------------------------- completion
\* C16: when the stream is exhausted the run sends, in this order and as the
\* last things it sends, one final update carrying all accumulated text,
\* whatever the throttle, and the status-cleared signal, and is disposed
\* after the step that sends them; no run sends a second final update.
ExhaustionSequence ==
    /\ [](\A r \in Runs :
            /\ CountSent(r, "update", "final") <= 1
            /\ run[r].ended_by = "exhausted"
                  => LET n == Len(run[r].log) IN
                     /\ run[r].log[n - 1] = [op |-> "update", arg |-> "final",
                                             text |-> run[r].message_text, at |-> 0]
                     /\ run[r].log[n].op = "clear"
                     /\ CountSent(r, "update", "final") = 1
                     /\ run[r].is_done
                     /\ run[r].pc = "done")
    /\ [][\A r \in Runs :
            run[r].pc = "pull" /\ run'[r].ended_by = "exhausted"
                => run'[r].log = run[r].log
                       \o <<[op |-> "update", arg |-> "final",
                             text |-> run[r].message_text, at |-> 0],
                            [op |-> "clear", arg |-> "run", text |-> <<>>, at |-> 0]>>]_vars

\* The stream ended within the throttle window of the last in-loop flush,
\* after a chunk whose flush was deferred.
FinalFlushInsideWindowWitness ==
    \E r \in Runs :
        /\ run[r].ended_by = "exhausted"
        /\ run[r].chunk_counter = 2
        /\ Len(PartialUpdates(r)) = 1
        /\ clock - run[r].last_update_time < ThrottleMs
        /\ ~run[r].subscribed

\* C17: a stream fault that reaches a run already disposed (a matching stop
\* was handled before) is swallowed: the step sends nothing, so no ERROR
\* status and no error text, and run() completes normally.
FaultAfterDisposeIgnored ==
    [][\A r \in Runs :
          run[r].pc = "pull" /\ run[r].is_done /\ run'[r].ended_by = "stream_fault"
              => /\ run'[r].log = run[r].log
                 /\ run'[r].message_text = run[r].message_text
                 /\ run'[r].pc = "done"
                 /\ run'[r].outcome = "returned"
                 /\ CountSent(r, "status", "AI_STATE_ERROR")' = 0
                 /\ CountSent(r, "update", "error")' = 0]_vars

\* A run that had sent a partial update was stopped and disposed, and then
\* its stream faulted: its log ends with the partial update.
FaultAfterStopWitness ==
    \E r \in Runs :
        /\ run[r].ended_by = "stream_fault"
        /\ run[r].pc = "done"
        /\ run[r].stop_clears >= 1
        /\ run[r].stop_pending = 0
        /\ Len(PartialUpdates(r)) = 1
        /\ CountSent(r, "status", "AI_STATE_ERROR") = 0
        /\ run[r].log[Len(run[r].log)].arg = "partial"

\* C18 as stated: Disposed is terminal.  From the moment a run is disposed it
\* sends no further text update and no further status signal, the
\* status-cleared signal included.
DisposedIsTerminal ==
    [][\A r \in Runs :
          run[r].is_done
              => /\ run'[r].log = run[r].log
                 /\ run'[r].stop_clears = run[r].stop_clears]_vars

\* ------------------------------------------------------------ the controller
\* The runs constructed and not yet disposed.
LiveRuns == {r \in Runs : run[r].pc # "idle" /\ ~run[r].is_done}

\* C19: the controller's handlers hold exactly the runs created and not yet
\* disposed, each once and in creation order; a run's release callback has
\* been invoked at most once, and exactly once when the run is disposed; so
\* the handlers are empty once every created run is disposed.
LiveRunsTracked ==
    /\ {handlers[i] : i \in 1 .. Len(handlers)} = LiveRuns
    /\ Len(handlers) = Cardinality(LiveRuns)
    /\ \A i, j \in 1 .. Len(handlers) : i < j => handlers[i] < handlers[j]
    /\ \A r \in Runs : run[r].releases = IF run[r].is_done THEN 1 ELSE 0
    /\ (\A r \in 1 .. created : run[r].is_done) => handlers = <<>>

\* Two runs were created and the later one was disposed first.
LaterRunDisposedFirstWitness ==
    /\ created = 2
    /\ run[2].is_done
    /\ ~run[1].is_done
    /\ handlers = <<1>>

\* An inbound message written by a user: not AI-generated, with text.
IsUserMessage(e) == e.has_message /\ ~e.ai_generated /\ e.text # ""

UserMessages == {i \in 1 .. Len(inbound) : IsUserMessage(inbound[i])}

\* C20: a run is created only by the delivery of a message that is not
\* AI-generated and has non-empty text, and only when the controller is
\* initialized; every run starts with its placeholder message and the
\* THINKING status.  A delivery creates at most one run, and the runs never
\* outnumber the user messages delivered: the agent's own placeholder
\* messages (AI-generated, empty text) start none.
RunsOnlyForUserMessages ==
    /\ [](/\ created <= Cardinality(UserMessages)
          /\ created > 0 => genai /\ listening
          /\ \A r \in 1 .. created :
                /\ run[r].log[1].op = "placeholder"
                /\ run[r].log[2].arg = "AI_STATE_THINKING")
    /\ [][created' # created
            => /\ created' = created + 1
               /\ genai /\ listening
               /\ Len(inbound') = Len(inbound) + 1
               /\ IsUserMessage(inbound'[Len(inbound')])]_vars

\* A placeholder-shaped message (AI-generated, empty text) was delivered to
\* the initialized controller while a run was live and started nothing; a
\* user message before it started the only run.
PlaceholderIgnoredWitness ==
    /\ Len(inbound) = 2
    /\ IsUserMessage(inbound[1])
    /\ inbound[2] = [has_message |-> TRUE, ai_generated |-> TRUE, text |-> ""]
    /\ created = 1
    /\ handlers = <<1>>

====
